---- MODULE Spec2Model ----
(***************************************************************************)
(* Comics API (src/main.py): the handlers list_comics, create_comic and    *)
(* get_comic over the document store collection "comic".                   *)
(*                                                                         *)
(* Encoding.  A Python dict / pydantic model is a function whose DOMAIN is *)
(* the set of keys holding a value; a key whose value is None is left out  *)
(* of the DOMAIN.  Strings that the code inspects character by character   *)
(* (titles, q, identifiers) are sequences of one-character strings; the    *)
(* other strings are TLA+ strings.  A float rating is kept in tenths.      *)
(***************************************************************************)
EXTENDS Integers, Sequences, FiniteSets, TLC

VARIABLES db, coll, nextOid, procs, last, posts

vars == <<db, coll, nextOid, procs, last, posts>>

(* ---------------------------------------------------------------------- *)
(* Bounds                                                                  *)
(* ---------------------------------------------------------------------- *)
\* successful POST /api/comics requests in a behaviour
MaxPosts == 2
\* the first identifier the store hands out (0x0a: its text has a letter)
OidBase == 10

Procs == {"r1", "r2"}
Serial == {"r1"}

(* ---------------------------------------------------------------------- *)
(* Characters                                                              *)
(* ---------------------------------------------------------------------- *)
UpperCase == <<"A","B","C","D","E","F","G","H","I","J","K","L","M",
               "N","O","P","Q","R","S","T","U","V","W","X","Y","Z">>
LowerCase == <<"a","b","c","d","e","f","g","h","i","j","k","l","m",
               "n","o","p","q","r","s","t","u","v","w","x","y","z">>

Lower(c) ==
    IF \E k \in 1..26 : UpperCase[k] = c
    THEN LowerCase[CHOOSE k \in 1..26 : UpperCase[k] = c]
    ELSE c

Upper(c) ==
    IF \E k \in 1..26 : LowerCase[k] = c
    THEN UpperCase[CHOOSE k \in 1..26 : LowerCase[k] = c]
    ELSE c

UpperStr(s) == [k \in 1..Len(s) |-> Upper(s[k])]

(* ---------------------------------------------------------------------- *)
(* bson.ObjectId: a 12-byte value, here a natural number; str() renders it *)
(* as 24 lower-case hex digits, ObjectId(str) accepts exactly 24 hex       *)
(* digits of either case and raises InvalidId otherwise.                   *)
(* ---------------------------------------------------------------------- *)
OidLen == 24
HexDigits == <<"0","1","2","3","4","5","6","7","8","9","a","b","c","d","e","f">>

RECURSIVE Pow16(_)
Pow16(e) == IF e = 0 THEN 1 ELSE 16 * Pow16(e - 1)

\* str(ObjectId): the model's identifiers fit in the low 6 hex digits
OidStr(n) ==
    [k \in 1..OidLen |->
        IF OidLen - k > 5 THEN "0"
        ELSE HexDigits[((n \div Pow16(OidLen - k)) % 16) + 1]]

IsHex(c) == \E d \in 1..16 : HexDigits[d] = Lower(c)

HexVal(c) == (CHOOSE d \in 1..16 : HexDigits[d] = Lower(c)) - 1

ObjectIdValid(s) == Len(s) = OidLen /\ \A k \in 1..Len(s) : IsHex(s[k])

RECURSIVE HexNum(_, _)
HexNum(s, k) == IF k = 0 THEN 0 ELSE 16 * HexNum(s, k - 1) + HexVal(s[k])

\* ObjectId(comic_id) for a valid comic_id
ObjectId(s) == HexNum(s, Len(s))

(* ---------------------------------------------------------------------- *)
(* Demo data provider                                                      *)
(* ---------------------------------------------------------------------- *)
_demo_comics == <<
  [id |-> <<"d","e","m","o","-","1">>,
   title |-> <<"N","o","v","a"," ","C","i","t","y",":"," ","N","e","o","n"," ","N","i","g","h","t","s">>,
   author |-> "A. Sterling",
   genre |-> "Sci-Fi",
   description |-> "A rogue courier races through a glowing mega-city to stop a sentient virus.",
   cover_url |-> "https://images.unsplash.com/photo-1534088568595-a066f410bcda?q=80&w=1200&auto=format&fit=crop",
   rating |-> 48,
   tags |-> <<"cyberpunk", "action", "future">>],
  [id |-> <<"d","e","m","o","-","2">>,
   title |-> <<"A","r","c","a","n","e"," ","A","c","a","d","e","m","y">>,
   author |-> "M. Kato",
   genre |-> "Fantasy",
   description |-> "A misfit mage uncovers a conspiracy at a floating academy of spells.",
   cover_url |-> "https://images.unsplash.com/photo-1549880338-65ddcdfd017b?q=80&w=1200&auto=format&fit=crop",
   rating |-> 46,
   tags |-> <<"magic", "school", "adventure">>],
  [id |-> <<"d","e","m","o","-","3">>,
   title |-> <<"S","t","a","r","l","i","g","h","t"," ","R","a","n","g","e","r","s">>,
   author |-> "J. Vega",
   genre |-> "Adventure",
   description |-> "Five unlikely heroes chart the unknown between galaxies.",
   cover_url |-> "https://images.unsplash.com/photo-1472214103451-9374bd1c798e?q=80&w=1200&auto=format&fit=crop",
   rating |-> 47,
   tags |-> <<"space", "team", "epic">>],
  [id |-> <<"d","e","m","o","-","4">>,
   title |-> <<"C","r","i","m","s","o","n"," ","S","t","r","e","e","t","s">>,
   author |-> "L. Noir",
   genre |-> "Noir",
   description |-> "A masked detective hunts the truth in rain-soaked alleys.",
   cover_url |-> "https://images.unsplash.com/photo-1501785888041-af3ef285b470?q=80&w=1200&auto=format&fit=crop",
   rating |-> 44,
   tags |-> <<"mystery", "crime", "vigilante">>] >>

NumDemo == Len(_demo_comics)

(* ---------------------------------------------------------------------- *)
(* Response model and serialisation                                        *)
(* ---------------------------------------------------------------------- *)
ResponseFields == {"id", "title", "author", "genre", "description",
                   "cover_url", "rating", "tags"}

\* ComicResponse(**d).model_dump(): the declared fields only; a field that
\* is None is a key left out of the DOMAIN
ComicResponse(d) == [k \in (DOMAIN d) \cap ResponseFields |-> d[k]]

\* datetime.isoformat()
IsoFormat(t) == [iso |-> t.datetime]

\* mutant: the native identifier is dropped and never renamed to "id"
serialize_document_no_id(doc) == [k \in (DOMAIN doc) \ {"_id"} |-> doc[k]]

serialize_document(doc) ==
    LET keys == IF "_id" \in DOMAIN doc
                THEN ((DOMAIN doc) \ {"_id"}) \cup {"id"}
                ELSE DOMAIN doc
    IN [k \in keys |->
          IF k = "id" /\ "_id" \in DOMAIN doc THEN OidStr(doc["_id"])
          ELSE IF k \in {"created_at", "updated_at"} /\ "datetime" \in DOMAIN doc[k]
               THEN IsoFormat(doc[k])
               ELSE doc[k]]

(* ---------------------------------------------------------------------- *)
(* Comic schema (schemas.Comic, subclassed by ComicCreate)                 *)
(* ---------------------------------------------------------------------- *)
RequiredFields == {"title", "author", "genre"}

\* FastAPI validates the body against ComicCreate before the handler runs
ComicCreateValid(body) == RequiredFields \subseteq DOMAIN body

(* ---------------------------------------------------------------------- *)
(* Document store adapter (database.create_document / get_documents) and   *)
(* the store's own query semantics                                         *)
(* ---------------------------------------------------------------------- *)
Min(a, b) == IF a < b THEN a ELSE b

\* one regular-expression atom against one character, option "i":
\* "." matches any character, any other character of the model's inputs
\* is a literal compared without regard to case
RegexAtom(a, c) == a = "." \/ Lower(a) = Lower(c)

\* {"$regex": pat, "$options": "i"}: an unanchored search
RegexSearch(pat, s) ==
    \E off \in 0..(Len(s) - Len(pat)) :
        \A j \in 1..Len(pat) : RegexAtom(pat[j], s[off + j])

Matches(doc, filt) ==
    /\ "title" \in DOMAIN filt =>
          "title" \in DOMAIN doc /\ RegexSearch(filt["title"].regex, doc["title"])
    /\ "genre" \in DOMAIN filt =>
          "genre" \in DOMAIN doc /\ doc["genre"] = filt["genre"]

\* the document create_document inserts: the data, the store-assigned
\* identifier and the two timestamps
NewDocument(data, oid) ==
    [k \in (DOMAIN data) \cup {"_id", "created_at", "updated_at"} |->
        IF k = "_id" THEN oid
        ELSE IF k \in {"created_at", "updated_at"} THEN [datetime |-> oid]
        ELSE data[k]]

\* create_document("comic", data): the collection after the insert
create_document(c, data, oid) == Append(c, NewDocument(data, oid))

\* get_documents("comic", filt, limit): up to limit matching documents in
\* the store's natural (insertion) order
get_documents(c, filt, limit) ==
    LET hit == SelectSeq(c, LAMBDA d : Matches(d, filt))
    IN SubSeq(hit, 1, Min(limit, Len(hit)))

\* db["comic"].find_one({"_id": oid}): the set of results (empty or one)
find_one(c, oid) == {c[k] : k \in {j \in 1..Len(c) : c[j]["_id"] = oid}}

(* ---------------------------------------------------------------------- *)
(* Request inputs                                                          *)
(* ---------------------------------------------------------------------- *)
LimitMin == 1
LimitMax == 100
LimitDefault == 24

ValidLimits == {LimitMin, NumDemo - 1, LimitDefault, LimitMax}
AllLimits == LimitMin..LimitMax
InvalidLimits == {LimitMin - 1, LimitMax + 1}

QValues == { <<"A","R","C">>, <<"a",".","c">> }
GenreValues == {"Fantasy"}

\* the query parameters of GET /api/comics with a limit of L; q and genre
\* are optional
Requests(L) ==
    { [limit |-> l] : l \in L }
    \cup { [limit |-> l, q |-> q] : l \in L, q \in QValues }
    \cup { [limit |-> l, genre |-> g] : l \in L, g \in GenreValues }
    \cup { [limit |-> l, q |-> q, genre |-> g] :
              l \in L, q \in QValues, g \in GenreValues }

\* the requests tried against the store, and against the demo fallback
ListRequests == Requests(ValidLimits)
DemoRequests == Requests(AllLimits)

BodyFull ==
    [title |-> <<"A","r","c"," ","L","i","g","h","t">>, author |-> "R. Ames",
     genre |-> "Fantasy", description |-> "An apprentice welder finds a spark.",
     cover_url |-> "https://example.org/arc.png", rating |-> 45,
     tags |-> <<"magic", "workshop">>]
BodyMin ==
    [title |-> <<"A","b","c">>, author |-> "T. Ode", genre |-> "Noir"]

Without(body, key) == [k \in (DOMAIN body) \ {key} |-> body[k]]

Bodies == {BodyFull, BodyMin} \cup { Without(BodyFull, f) : f \in RequiredFields }

MalformedIds ==
    { <<"d","e","m","o","-","1">>, <<"d","e","m","o","-","9">>,
      [k \in 1..OidLen |-> IF k = OidLen THEN "g" ELSE "0"] }

\* identifiers a client may ask for: the identifiers POST has returned, the
\* first identifier of the collection and the next unused one, each in
\* either letter case, and malformed ones
IdInputs ==
    LET known == {r.id : r \in posts} \cup {OidStr(OidBase), OidStr(nextOid)}
    IN known \cup {UpperStr(s) : s \in known} \cup MalformedIds

(* ---------------------------------------------------------------------- *)
(* State                                                                   *)
(* ---------------------------------------------------------------------- *)
Idle == [pc |-> "idle", count |-> -1, i |-> 0, seedErr |-> FALSE, alone |-> TRUE]

Init ==
    /\ db \in {"connected", "None"}
    /\ coll = <<>>
    /\ nextOid = OidBase
    /\ procs = [p \in Procs |-> Idle]
    /\ last = [kind |-> "none", status |-> 0]
    /\ posts = {}

\* handler p takes a step: p's record becomes rec, and every other request
\* in flight is no longer running alone
Step(p, rec) ==
    procs' = [r \in Procs |->
                IF r = p THEN rec
                ELSE IF procs[r].pc = "idle" THEN procs[r]
                ELSE [procs[r] EXCEPT !.alone = FALSE]]

\* the response slot is free: the previous answer has been taken
NoResponse == last.kind = "none"

\* the client takes the answer
Deliver ==
    /\ ~NoResponse
    /\ last' = [kind |-> "none", status |-> 0]
    /\ UNCHANGED <<db, coll, nextOid, procs, posts>>

OthersIdle(p) == \A r \in Procs \ {p} : procs[r].pc = "idle"

(* ---------------------------------------------------------------------- *)
(* GET /api/comics                                                         *)
(* ---------------------------------------------------------------------- *)
\* a limit outside [1,100] is rejected by the Query validation; the handler
\* does not run
ListReject(p) ==
    /\ procs[p].pc = "idle"
    /\ NoResponse
    /\ \E l \in InvalidLimits :
          last' = [kind |-> "list", req |-> [limit |-> l], status |-> 422,
                   ops |-> 0]
    /\ UNCHANGED <<db, coll, nextOid, procs, posts>>

\* mutant: the demo fallback forgets the slice
DemoList_unsliced(req) == [k \in 1..NumDemo |-> ComicResponse(_demo_comics[k])]

\* the demo fallback of list_comics
DemoList(req) == [k \in 1..Min(req.limit, NumDemo) |-> ComicResponse(_demo_comics[k])]

\* db is None: the handler answers from the demo data in one step
ListDemo(p) ==
    /\ procs[p].pc = "idle"
    /\ NoResponse
    /\ db = "None"
    /\ \E req \in DemoRequests :
          last' = [kind |-> "list", req |-> req, status |-> 200,
                   body |-> DemoList(req), ops |-> 0, count |-> -1, i |-> 0,
                   seedErr |-> FALSE, readErr |-> FALSE, alone |-> OthersIdle(p)]
    /\ UNCHANGED <<db, coll, nextOid, procs, posts>>

\* mutant: the emptiness test is inverted
SeedWanted_inverted(count) == count # 0

\* mutant: seeding whenever fewer documents than demo records are counted
SeedWanted_incomplete(count) == count < NumDemo

\* whether list_comics enters the seeding loop
SeedWanted(count) == count = 0

\* the handler starts with the store connected: count_documents({}); the
\* call may raise, and the except clause then skips the seeding
ListBegin(p) ==
    /\ procs[p].pc = "idle"
    /\ NoResponse
    /\ db # "None"
    /\ \E fault \in BOOLEAN :
          IF fault
          THEN Step(p, [pc |-> "read", count |-> -1, i |-> 0, seedErr |-> TRUE,
                        alone |-> OthersIdle(p)])
          ELSE Step(p, [pc |-> IF SeedWanted(Len(coll)) THEN "seed" ELSE "read",
                        count |-> Len(coll), i |-> 0, seedErr |-> FALSE,
                        alone |-> OthersIdle(p)])
    /\ UNCHANGED <<db, coll, nextOid, last, posts>>

\* mutant: an iteration inserts its demo record only if the collection
\* does not hold it yet
ListSeed_if_absent(p) ==
    /\ procs[p].pc = "seed"
    /\ NoResponse
    /\ LET k == procs[p].i + 1
           held == \E j \in 1..Len(coll) :
                      "id" \in DOMAIN coll[j] /\ coll[j]["id"] = _demo_comics[k].id
       IN /\ coll' = IF held THEN coll ELSE create_document(coll, _demo_comics[k], nextOid)
          /\ nextOid' = IF held THEN nextOid ELSE nextOid + 1
          /\ Step(p, [procs[p] EXCEPT
                        !.i = @ + 1,
                        !.pc = IF k = NumDemo THEN "read" ELSE "seed"])
    /\ UNCHANGED <<db, last, posts>>

\* one iteration of the seeding loop: create_document("comic", c); an
\* exception leaves the loop and is swallowed
ListSeed(p) ==
    /\ procs[p].pc = "seed"
    /\ NoResponse
    /\ \E fault \in BOOLEAN :
          IF fault
          THEN /\ Step(p, [procs[p] EXCEPT !.pc = "read", !.seedErr = TRUE])
               /\ UNCHANGED <<coll, nextOid>>
          ELSE /\ coll' = create_document(coll, _demo_comics[procs[p].i + 1], nextOid)
               /\ nextOid' = nextOid + 1
               /\ Step(p, [procs[p] EXCEPT
                             !.i = @ + 1,
                             !.pc = IF procs[p].i + 1 = NumDemo THEN "read" ELSE "seed"])
    /\ UNCHANGED <<db, last, posts>>

\* the filter document list_comics builds from q and genre
ListFilter(req) ==
    LET useq == "q" \in DOMAIN req /\ req["q"] # <<>>
        useg == "genre" \in DOMAIN req /\ req["genre"] # ""
    IN [k \in (IF useq THEN {"title"} ELSE {}) \cup (IF useg THEN {"genre"} ELSE {}) |->
          IF k = "title" THEN [regex |-> req["q"], options |-> "i"]
          ELSE req["genre"]]

ListBody(c, req) ==
    LET docs == get_documents(c, ListFilter(req), req.limit)
    IN [k \in 1..Len(docs) |-> ComicResponse(serialize_document(docs[k]))]

\* status of list_comics when get_documents raises: the call is outside the
\* try block, so the exception leaves the handler
ListReadFailure == 500

\* store calls of a list request at its read: the count, the inserts made,
\* the insert that raised if one did, and get_documents
ListStoreCalls(r) == 2 + r.i + (IF r.seedErr /\ r.count = 0 THEN 1 ELSE 0)

\* the read: get_documents and the response.  The query parameters are
\* bound here, where the handler first reads them.
ListRead(p) ==
    /\ procs[p].pc = "read"
    /\ NoResponse
    /\ \E req \in ListRequests, fault \in BOOLEAN :
          last' = [kind |-> "list", req |-> req,
                   status |-> IF fault THEN ListReadFailure ELSE 200,
                   body |-> IF fault THEN <<>> ELSE ListBody(coll, req),
                   ops |-> ListStoreCalls(procs[p]), count |-> procs[p].count,
                   i |-> procs[p].i, seedErr |-> procs[p].seedErr,
                   readErr |-> fault, alone |-> procs[p].alone]
    /\ Step(p, Idle)
    /\ UNCHANGED <<db, coll, nextOid, posts>>

(* ---------------------------------------------------------------------- *)
(* POST /api/comics                                                        *)
(* ---------------------------------------------------------------------- *)
\* mutant: the payload is taken as a plain dict, so no body is rejected
create_comic_unvalidated(p) ==
    /\ procs[p].pc = "idle"
    /\ NoResponse
    /\ db # "None"
    /\ Cardinality(posts) < MaxPosts
    /\ \E body \in Bodies :
          /\ coll' = create_document(coll, body, nextOid)
          /\ last' = [kind |-> "create", body |-> body, status |-> 200,
                      id |-> OidStr(nextOid), ops |-> 1]
          /\ posts' = posts \cup {[id |-> OidStr(nextOid), body |-> body]}
    /\ nextOid' = nextOid + 1
    /\ Step(p, Idle)
    /\ UNCHANGED db

\* mutant: the handler does not test db, and create_document raises on the
\* missing store
create_comic_unguarded(p) ==
    /\ procs[p].pc = "idle"
    /\ NoResponse
    /\ \E body \in Bodies, fault \in BOOLEAN :
          IF ~ComicCreateValid(body)
          THEN /\ last' = [kind |-> "create", body |-> body, status |-> 422,
                           ops |-> 0]
               /\ UNCHANGED <<coll, nextOid, posts, procs>>
          ELSE IF fault \/ db = "None"
          THEN /\ last' = [kind |-> "create", body |-> body, status |-> 500,
                           ops |-> 1]
               /\ Step(p, Idle)
               /\ UNCHANGED <<coll, nextOid, posts>>
          ELSE /\ Cardinality(posts) < MaxPosts
               /\ coll' = create_document(coll, body, nextOid)
               /\ nextOid' = nextOid + 1
               /\ last' = [kind |-> "create", body |-> body, status |-> 200,
                           id |-> OidStr(nextOid), ops |-> 1]
               /\ posts' = posts \cup {[id |-> OidStr(nextOid), body |-> body]}
               /\ Step(p, Idle)
    /\ UNCHANGED db

\* the handler: 422 for a body the schema rejects, 503 without a store,
\* else create_document("comic", payload), whose exception leaves the handler
create_comic(p) ==
    /\ procs[p].pc = "idle"
    /\ NoResponse
    /\ \E body \in Bodies, fault \in BOOLEAN :
          IF ~ComicCreateValid(body)
          THEN /\ last' = [kind |-> "create", body |-> body, status |-> 422,
                           ops |-> 0]
               /\ UNCHANGED <<coll, nextOid, posts, procs>>
          ELSE IF db = "None"
          THEN /\ last' = [kind |-> "create", body |-> body, status |-> 503,
                           ops |-> 0]
               /\ UNCHANGED <<coll, nextOid, posts, procs>>
          ELSE IF fault
          THEN /\ last' = [kind |-> "create", body |-> body, status |-> 500,
                           ops |-> 1]
               /\ Step(p, Idle)
               /\ UNCHANGED <<coll, nextOid, posts>>
          ELSE /\ Cardinality(posts) < MaxPosts
               /\ coll' = create_document(coll, body, nextOid)
               /\ nextOid' = nextOid + 1
               /\ last' = [kind |-> "create", body |-> body, status |-> 200,
                           id |-> OidStr(nextOid), ops |-> 1]
               /\ posts' = posts \cup {[id |-> OidStr(nextOid), body |-> body]}
               /\ Step(p, Idle)
    /\ UNCHANGED db

(* ---------------------------------------------------------------------- *)
(* GET /api/comics/{comic_id}                                              *)
(* ---------------------------------------------------------------------- *)
\* db is None: linear scan of the demo records
GetDemo(comic_id) ==
    LET hits == {k \in 1..NumDemo : _demo_comics[k].id = comic_id}
    IN IF hits # {}
       THEN [status |-> 200,
             body |-> ComicResponse(_demo_comics[CHOOSE k \in hits : \A j \in hits : k <= j])]
       ELSE [status |-> 404, detail |-> "Comic not found"]

\* the body of the try block: its value, or the exception it raises
GetTry(c, comic_id, fault) ==
    IF ~ObjectIdValid(comic_id) THEN [raised |-> "InvalidId"]
    ELSE IF fault THEN [raised |-> "StoreError"]
    ELSE LET found == find_one(c, ObjectId(comic_id))
         IN IF found = {} THEN [raised |-> "HTTPException", status |-> 404]
            ELSE [raised |-> "", body |-> ComicResponse(serialize_document(CHOOSE d \in found : TRUE))]

\* except Exception: every exception of the try block, the HTTPException
\* of the not-found case included, becomes 400 "Invalid comic id"
GetStore(c, comic_id, fault) ==
    LET t == GetTry(c, comic_id, fault)
    IN IF t.raised = "" THEN [status |-> 200, body |-> t.body]
       ELSE [status |-> 400, detail |-> "Invalid comic id"]

\* the handler, one store call at most
get_comic(p) ==
    /\ procs[p].pc = "idle"
    /\ NoResponse
    /\ \E comic_id \in IdInputs, fault \in BOOLEAN :
          last' = [kind |-> "get", comic_id |-> comic_id,
                   fault |-> (db # "None" /\ fault),
                   ops |-> IF db # "None" /\ ObjectIdValid(comic_id) THEN 1 ELSE 0,
                   res |-> IF db = "None" THEN GetDemo(comic_id)
                           ELSE GetStore(coll, comic_id, fault),
                   status |-> IF db = "None" THEN GetDemo(comic_id).status
                              ELSE GetStore(coll, comic_id, fault).status]
    /\ IF db = "None" THEN UNCHANGED procs ELSE Step(p, Idle)
    /\ UNCHANGED <<db, coll, nextOid, posts>>

(* ---------------------------------------------------------------------- *)
(* Specification                                                           *)
(* ---------------------------------------------------------------------- *)
\* every endpoint: one list request in flight at a time, the creates and
\* lookups of other clients interleaving with its store calls
Next ==
    \/ Deliver
    \/ \E p \in Serial :
        \/ ListReject(p)
        \/ ListDemo(p)
        \/ ListBegin(p)
        \/ ListSeed(p)
        \/ ListRead(p)
    \/ \E p \in Procs :
        \/ create_comic(p)
        \/ get_comic(p)

Spec == Init /\ [][Next]_vars

\* the read endpoints under the server's concurrent dispatch: the steps of
\* the handlers in flight interleave at their store calls
NextRace ==
    \/ Deliver
    \/ \E p \in Procs :
        \/ ListBegin(p)
        \/ ListSeed(p)
        \/ ListRead(p)
        \/ get_comic(p)

SpecRace == Init /\ [][NextRace]_vars

(* ---------------------------------------------------------------------- *)
(* Properties                                                              *)
(* ---------------------------------------------------------------------- *)
Connected == db # "None"

\* the answer in the response slot comes from the named endpoint
ListAnswer == last.kind = "list" /\ last.status # 422
GetAnswer == last.kind = "get"
CreateAnswer == last.kind = "create"

\* s contains sub as a substring, letters compared without regard to case
ContainsCI(s, sub) ==
    \E off \in 0..(Len(s) - Len(sub)) :
        \A j \in 1..Len(sub) : Lower(sub[j]) = Lower(s[off + j])

\* the fields a client submits
SubmittedFields == ResponseFields \ {"id"}

\* number of documents of the collection that carry demo record k
Copies(k) ==
    Cardinality({j \in 1..Len(coll) :
                    "id" \in DOMAIN coll[j] /\ coll[j]["id"] = _demo_comics[k].id})

\* C1: with the store connected, GET /api/comics/{comic_id} answers 400
\* for a comic_id from which no ObjectId can be built and 404, never the
\* invalid-id 400, for a well-formed comic_id that matches no document.
C1_NotFoundDistinct ==
    (GetAnswer /\ Connected /\ ~last.fault) =>
        /\ ~ObjectIdValid(last.comic_id) => last.status = 400
        /\ (ObjectIdValid(last.comic_id)
              /\ find_one(coll, ObjectId(last.comic_id)) = {}) => last.status = 404

\* the comic of a 200 lookup carries the identifier and the submitted values
\* of the post r
SameComic(body, r) ==
    /\ "id" \in DOMAIN body
    /\ body["id"] = r.id
    /\ \A f \in SubmittedFields :
          /\ (f \in DOMAIN body) <=> (f \in DOMAIN r.body)
          /\ (f \in DOMAIN body /\ f \in DOMAIN r.body) => body[f] = r.body[f]

SeededExactly ==
    /\ Len(coll) = NumDemo
    /\ \A k \in 1..NumDemo :
          \A f \in DOMAIN _demo_comics[k] :
              f \in DOMAIN coll[k] /\ coll[k][f] = _demo_comics[k][f]

\* C3: with the store connected and the collection empty, one GET
\* /api/comics running alone with no store error leaves the collection
\* holding exactly the demo records, and answers with at most limit comics,
\* each of them one of the seeded records.
C3_SeedOnEmpty ==
    (ListAnswer /\ Connected /\ last.count = 0 /\ last.alone
        /\ ~last.seedErr /\ ~last.readErr) =>
        /\ SeededExactly
        /\ last.status = 200
        /\ Len(last.body) <= last.req.limit
        /\ \A j \in 1..Len(last.body) :
              \E k \in 1..NumDemo :
                  /\ last.body[j]["id"] = OidStr(coll[k]["_id"])
                  /\ \A f \in SubmittedFields :
                        last.body[j][f] = _demo_comics[k][f]

\* an unfiltered answer cut to a limit below the number of demo records
C3_Witness ==
    /\ ListAnswer /\ Connected /\ last.count = 0 /\ last.alone
    /\ ~last.seedErr /\ ~last.readErr
    /\ last.req.limit = NumDemo - 1
    /\ Len(last.body) = NumDemo - 1

\* C4: with the store unavailable, GET /api/comics answers, for every limit
\* in [1,100] and whatever q and genre, with exactly the first
\* min(limit, number of demo records) demo records in their fixed order,
\* and makes no store call.
C4_DemoPrefix ==
    (ListAnswer /\ ~Connected) =>
        /\ last.status = 200
        /\ Len(last.body) = Min(last.req.limit, NumDemo)
        /\ \A k \in 1..Len(last.body) : last.body[k] = _demo_comics[k]
        /\ last.ops = 0
        /\ coll = <<>>

\* a filtered request whose limit cuts the demo list
C4_Witness ==
    /\ ListAnswer /\ ~Connected
    /\ DOMAIN last.req = {"limit", "q", "genre"}
    /\ last.req.limit = 2
    /\ Len(last.body) = 2

\* C5: with the store connected, every comic of GET /api/comics?q=<q>, q
\* non-empty, has a title that contains q as a substring, compared without
\* regard to case.
C5_TitleContainsQ ==
    (ListAnswer /\ Connected /\ last.status = 200
        /\ "q" \in DOMAIN last.req /\ last.req["q"] # <<>>) =>
        \A j \in 1..Len(last.body) :
            ContainsCI(last.body[j]["title"], last.req["q"])

\* C6: a POST /api/comics whose body lacks title, author or genre is
\* answered 422 before the handler runs and leaves the collection as it
\* was.
C6_InvalidBodyNoWrite ==
    [][(last.kind = "none" /\ last'.kind = "create"
          /\ ~(RequiredFields \subseteq DOMAIN last'.body)) =>
            (last'.status = 422 /\ last'.ops = 0 /\ coll' = coll
               /\ nextOid' = nextOid /\ posts' = posts)]_vars

\* a body without title rejected while the store is connected and holds
\* documents
C6_Witness ==
    /\ CreateAnswer /\ Connected
    /\ "title" \notin DOMAIN last.body
    /\ last.status = 422
    /\ Len(coll) > 0

\* C7: with the store unavailable, every valid POST /api/comics is answered
\* 503, makes no store call and returns no id; the read endpoints answer
\* from the demo data and surface no store error (a lookup answers a demo
\* record or not-found).
C7_WriteUnavailable ==
    ~Connected =>
        /\ (CreateAnswer /\ ComicCreateValid(last.body)) =>
              (last.status = 503 /\ last.ops = 0 /\ "id" \notin DOMAIN last)
        /\ ListAnswer =>
              (last.status = 200 /\ Len(last.body) > 0
                 /\ \A k \in 1..Len(last.body) :
                       \E d \in 1..NumDemo : last.body[k] = _demo_comics[d])
        /\ GetAnswer =>
              /\ last.status \in {200, 404}
              /\ last.status = 200 =>
                    \E d \in 1..NumDemo : last.res.body = _demo_comics[d]
        /\ coll = <<>>
        /\ posts = {}

\* a complete body refused with 503
C7_Witness ==
    /\ ~Connected /\ CreateAnswer
    /\ last.body = BodyFull
    /\ last.status = 503

\* C8: a store exception on a hot path is absorbed: after a failed count or
\* a failed seeding insert the read proceeds, and no list or lookup request
\* fails with an unhandled server error.
C8_StoreErrorsAbsorbed ==
    /\ (ListAnswer /\ Connected /\ last.seedErr /\ ~last.readErr) => last.status = 200
    /\ (last.kind \in {"list", "get"}) => last.status # 500

\* list requests that counted 0 and have made every insert: those at their
\* read, and the one whose answer is in the response slot
FullSeeders ==
    Cardinality({p \in Procs : procs[p].pc = "read" /\ procs[p].count = 0
                                 /\ ~procs[p].seedErr})
    + (IF ListAnswer /\ Connected /\ last.count = 0 /\ ~last.seedErr THEN 1 ELSE 0)

\* C9: the seed-if-empty check is not atomic with the inserts: each list
\* request that counted 0 inserts every demo record whatever the other
\* request has inserted, so the collection holds each demo record once per
\* such request (twice for two), and each request whose read succeeds
\* still answers 200.
C9_RaceDuplicates ==
    /\ \A k \in 1..NumDemo : Copies(k) >= FullSeeders
    /\ \A p \in Procs :
          (procs[p].pc = "read" /\ procs[p].count = 0 /\ ~procs[p].seedErr) =>
              procs[p].i = NumDemo
    /\ (ListAnswer /\ Connected /\ ~last.readErr) => last.status = 200

\* both requests counted 0, the first has answered 200, the second is at
\* its read, and the collection holds each demo record twice
C9_Witness ==
    /\ ListAnswer /\ Connected /\ last.status = 200
    /\ last.count = 0 /\ ~last.seedErr /\ ~last.alone
    /\ FullSeeders = 2
    /\ Len(coll) = 2 * NumDemo
    /\ \A k \in 1..NumDemo : Copies(k) = 2

\* C10: a list request inserts only if its own count was 0, and a request
\* that counted a non-empty collection inserts nothing; every change of the
\* collection is one insert of a seeding request, so get_comic never writes
\* and a partly seeded collection is never completed by a later request.
C10_SeedOnlyOnZero ==
    [][/\ \A p \in Procs : procs[p].pc = "seed" => procs[p].count = 0
       /\ \A p \in Procs : procs[p].count > 0 => procs[p].i = 0
       /\ coll' # coll =>
             \E p \in Procs :
                 /\ procs[p].pc = "seed"
                 /\ procs[p].count = 0
                 /\ procs'[p].i = procs[p].i + 1
                 /\ Len(coll') = Len(coll) + 1
       /\ (last'.kind = "list" /\ last'.status # 422 /\ last'.count > 0) =>
             last'.i = 0]_vars

\* a later list request has counted a partly seeded collection and answered
\* without inserting: the collection still lacks demo records
C10_Witness ==
    /\ ListAnswer /\ Connected /\ last.status = 200
    /\ last.count > 0 /\ last.count < NumDemo
    /\ last.i = 0
    /\ Len(coll) = last.count
    /\ Copies(NumDemo) = 0

====
